---- MODULE Spec2Model ----
(***************************************************************************)
(* Model of the options pricing library: the columnar contract data        *)
(* (OptData), the batch (Options), the Black-Scholes pricing model, and    *)
(* the chunking utilities chunk_opt / collect_chunks.                      *)
(*                                                                         *)
(* f64 values are represented by integer codes (a leaf <<n>> of a term)    *)
(* and f64 arithmetic by the term of the expression the code evaluates,    *)
(* so two results are equal exactly when the code evaluates the same       *)
(* expression on the same operands.  Timestamps are integer seconds.       *)
(***************************************************************************)
EXTENDS Integers, Sequences, FiniteSets, TLC

\* ------------------------------------------------------------------ bounds
MaxN == 3          \* largest number of contracts in a source batch
MaxSize == 4       \* largest chunk size passed to chunk_opt
MaxFailures == 1   \* largest number of workers that fail

\* ------------------------------------------------- program constants
\* Stands for usize::MAX, the value of a wrapped `0 - 1` and of a saturated
\* `inf as usize`.  It is only ever used as the upper end of the loop range
\* in chunk_opt, which the loop leaves by a panic in its first iteration.
USIZE_MAX == 2147483647

\* ------------------------------------------------------- input contracts
\* The contract rows the batches are built from.  Rows differ in every
\* column, so a dropped, duplicated or reordered row is visible in each.
Contracts ==
  { [ticker |-> "AAPL", opt_type |-> "Call", underlying |-> 120, strike |-> 110,
     settle |-> 0, maturity |-> 5, dividend |-> 3, rfr |-> 4, volatility |-> 35],
    [ticker |-> "MSFT", opt_type |-> "Put", underlying |-> 100, strike |-> 105,
     settle |-> 1, maturity |-> 3, dividend |-> 0, rfr |-> 2, volatility |-> 20] }

RECURSIVE SeqsUpTo(_, _)
SeqsUpTo(S, n) ==
  IF n = 0 THEN { <<>> }
  ELSE LET shorter == SeqsUpTo(S, n - 1)
       IN shorter \cup { Append(s, x) : s \in { t \in shorter : Len(t) = n - 1 }, x \in S }

Column(rows, f) == [i \in 1..Len(rows) |-> rows[i][f]]

\* --------------------------------------------------------------- f64 terms
Val(n) == <<n>>
Const(name) == <<"const", name, "", "">>
Un(op, a) == <<op, a>>
Bin(op, a, b) == <<op, a, b>>

\* ----------------------------------------------------------------- OptData
\* OptData::get_durs: one duration per settle, from maturities[i] - settles[i]
GetDurs(settles, maturities) ==
  [i \in 1..Len(settles) |->
     Bin("div", Val(maturities[i] - settles[i]), Const("SEC_YEAR"))]

\* get_durs indexes maturities[i] for every i < settles.len()
GetDursPanics(settles, maturities) == Len(maturities) < Len(settles)

\* OptData::new: stores the nine columns and derives duration
OptDataNew(tickers, opt_types, underlying, strike, settles, maturities, dividend, rfr, volatility) ==
  [tickers |-> tickers, opt_types |-> opt_types, underlying |-> underlying,
   strike |-> strike, settles |-> settles, maturities |-> maturities,
   duration |-> GetDurs(settles, maturities),
   dividend |-> dividend, rfr |-> rfr, volatility |-> volatility]

\* impl Default for OptData
OptDataDefault ==
  [tickers |-> <<>>, opt_types |-> <<>>, underlying |-> <<>>, strike |-> <<>>,
   settles |-> <<>>, maturities |-> <<>>, duration |-> <<>>,
   dividend |-> <<>>, rfr |-> <<>>, volatility |-> <<>>]

\* The ten contract columns of OptData
ContractColumns ==
  {"tickers", "opt_types", "underlying", "strike", "settles", "maturities",
   "duration", "dividend", "rfr", "volatility"}

\* ----------------------------------------------------------------- Options
\* impl Default for Greeks: the all-zero placeholder
GreeksDefault ==
  [delta |-> Const("0.0"), gamma |-> Const("0.0"), vega |-> Const("0.0"),
   theta |-> Const("0.0"), rho |-> Const("0.0")]

\* Options::new as it would be if it filled greeks with one placeholder per row
OptionsNew_placeholders(opt_data, model) ==
  [opt_data |-> opt_data, prices |-> <<>>,
   greeks |-> [i \in 1..Len(opt_data.tickers) |-> GreeksDefault],
   model |-> model, iter_count |-> 0]

\* Options::new
OptionsNew(opt_data, model) ==
  [opt_data |-> opt_data, prices |-> <<>>, greeks |-> <<>>, model |-> model,
   iter_count |-> 0]

\* impl Default for Options as it would be with one placeholder Greeks
OptionsDefault_placeholder ==
  [opt_data |-> OptDataDefault, prices |-> <<>>, greeks |-> <<GreeksDefault>>,
   model |-> "BlackScholesModel", iter_count |-> 0]

\* impl Default for Options
OptionsDefault ==
  [opt_data |-> OptDataDefault, prices |-> <<>>, greeks |-> <<>>,
   model |-> "BlackScholesModel", iter_count |-> 0]

\* -------------------------------------------------------- BlackScholesModel
Mul(a, b) == Bin("mul", a, b)
Div(a, b) == Bin("div", a, b)
Add(a, b) == Bin("add", a, b)
Sub(a, b) == Bin("sub", a, b)
Neg(a) == Un("neg", a)
Exp(a) == Un("exp", a)
Ln(a) == Un("ln", a)
Sqrt(a) == Un("sqrt", a)
Cdf(a) == Un("cdf", a)
Pdf(a) == Un("pdf", a)

\* BlackScholesModel::get_d1
get_d1(underlying, strike, dividend, rfr, volatility, duration) ==
  Mul(Div(Const("1.0"), Mul(volatility, Sqrt(duration))),
      Add(Ln(Div(underlying, strike)),
          Mul(duration,
              Add(Sub(rfr, dividend),
                  Div(Bin("powf", volatility, Const("2.0")), Const("2.0"))))))

\* BlackScholesModel::get_d2
get_d2(d1, volatility, duration) == Sub(d1, Mul(volatility, Sqrt(duration)))

\* d1 and d2 of row i, as both get_price and get_greeks push them
RowD1(d, i) ==
  get_d1(Val(d.underlying[i]), Val(d.strike[i]), Val(d.dividend[i]),
         Val(d.rfr[i]), Val(d.volatility[i]), d.duration[i])

RowD2(d, i) == get_d2(RowD1(d, i), Val(d.volatility[i]), d.duration[i])

\* The value get_price pushes as it would be if the Put branch took the
\* distribution at d2 and d1 instead of at -d2 and -d1
PriceOfRow_put_unsigned(d, i) ==
  LET U == Val(d.underlying[i])
      K == Val(d.strike[i])
      q == Val(d.dividend[i])
      r == Val(d.rfr[i])
      T == d.duration[i]
      d1 == RowD1(d, i)
      d2 == RowD2(d, i)
  IN IF d.opt_types[i] = "Call"
       THEN Sub(Mul(Mul(U, Exp(Mul(Neg(q), T))), Cdf(d1)),
                Mul(Mul(K, Exp(Mul(Neg(r), T))), Cdf(d2)))
     ELSE IF d.opt_types[i] = "Put"
       THEN Sub(Mul(Mul(K, Exp(Mul(Neg(r), T))), Cdf(d2)),
                Mul(Mul(U, Exp(Mul(Neg(q), T))), Cdf(d1)))
     ELSE Const("panic")

\* The value get_price pushes for row i: the Call branch, the Put branch,
\* or the panicking fall-through
PriceOfRow(d, i) ==
  LET U == Val(d.underlying[i])
      K == Val(d.strike[i])
      q == Val(d.dividend[i])
      r == Val(d.rfr[i])
      T == d.duration[i]
      d1 == RowD1(d, i)
      d2 == RowD2(d, i)
  IN IF d.opt_types[i] = "Call"
       THEN Sub(Mul(Mul(U, Exp(Mul(Neg(q), T))), Cdf(d1)),
                Mul(Mul(K, Exp(Mul(Neg(r), T))), Cdf(d2)))
     ELSE IF d.opt_types[i] = "Put"
       THEN Sub(Mul(Mul(K, Exp(Mul(Neg(r), T))), Cdf(Neg(d2))),
                Mul(Mul(U, Exp(Mul(Neg(q), T))), Cdf(Neg(d1))))
     ELSE Const("panic")

\* BlackScholesModel::get_price as it would be if every element were
\* computed from the first row
BlackScholes_get_price_first(o) ==
  [i \in 1..Len(o.opt_data.tickers) |-> PriceOfRow(o.opt_data, 1)]

\* BlackScholesModel::get_price: one price per ticker
BlackScholes_get_price(o) ==
  [i \in 1..Len(o.opt_data.tickers) |-> PriceOfRow(o.opt_data, i)]

\* get_greeks::get_delta
get_delta(opt_type, d1, dividend, duration) ==
  IF opt_type = "Call" THEN Mul(Exp(Neg(Mul(dividend, duration))), Cdf(d1))
  ELSE IF opt_type = "Put"
    THEN Mul(Exp(Neg(Mul(dividend, duration))), Sub(Cdf(d1), Const("1.0")))
  ELSE Const("0.0")

\* get_greeks::get_gamma
get_gamma(d1, dividend, duration, underlying, volatility) ==
  Mul(Div(Exp(Neg(Mul(dividend, duration))),
          Mul(Mul(underlying, volatility), Sqrt(duration))),
      Pdf(d1))

\* get_greeks::get_vega
get_vega(d1, underlying, dividend, duration) ==
  Mul(Mul(Mul(Mul(Div(Const("1.0"), Const("100.0")), underlying),
              Exp(Neg(Mul(dividend, duration)))),
          Sqrt(duration)),
      Pdf(d1))

\* The first term of theta, as the code parenthesises it:
\* ((U * sigma * exp(-(q*T))) / 2.0 * sqrt(T)) * pdf(d1)
ThetaFirstTerm(d1, underlying, dividend, duration, volatility) ==
  Mul(Mul(Div(Mul(Mul(underlying, volatility), Exp(Neg(Mul(dividend, duration)))),
              Const("2.0")),
          Sqrt(duration)),
      Pdf(d1))

\* get_greeks::get_theta
get_theta(opt_type, d1, d2, underlying, dividend, duration, strike, rfr, volatility) ==
  IF opt_type = "Call"
    THEN Mul(Div(Const("1.0"), Const("365.25")),
             Add(Sub(Neg(ThetaFirstTerm(d1, underlying, dividend, duration, volatility)),
                     Mul(Mul(Mul(rfr, strike), Exp(Neg(Mul(rfr, duration)))), Cdf(d2))),
                 Mul(Mul(Mul(dividend, underlying), Exp(Neg(Mul(dividend, duration)))),
                     Cdf(d1))))
  ELSE IF opt_type = "Put"
    THEN Mul(Div(Const("1.0"), Const("365.25")),
             Sub(Add(Neg(ThetaFirstTerm(d1, underlying, dividend, duration, volatility)),
                     Mul(Mul(Mul(rfr, strike), Exp(Neg(Mul(rfr, duration)))), Cdf(Neg(d2)))),
                 Mul(Mul(Mul(dividend, underlying), Exp(Neg(Mul(dividend, duration)))),
                     Cdf(Neg(d1)))))
  ELSE Const("0.0")

\* get_greeks::get_rho
get_rho(opt_type, d2, strike, duration, rfr) ==
  IF opt_type = "Call"
    THEN Mul(Mul(Mul(Mul(Div(Const("1.0"), Const("100.0")), strike), duration),
                 Exp(Neg(Mul(rfr, duration)))),
             Cdf(d2))
  ELSE IF opt_type = "Put"
    THEN Mul(Mul(Mul(Mul(Div(Const("-1.0"), Const("100.0")), strike), duration),
                 Exp(Neg(Mul(rfr, duration)))),
             Cdf(Neg(d2)))
  ELSE Const("0.0")

\* The Greeks record get_greeks pushes for row i
GreeksOfRow(d, i) ==
  LET U == Val(d.underlying[i])
      K == Val(d.strike[i])
      q == Val(d.dividend[i])
      r == Val(d.rfr[i])
      v == Val(d.volatility[i])
      T == d.duration[i]
      d1 == RowD1(d, i)
      d2 == RowD2(d, i)
  IN [delta |-> get_delta(d.opt_types[i], d1, q, T),
      gamma |-> get_gamma(d1, q, T, U, v),
      vega |-> get_vega(d1, U, q, T),
      theta |-> get_theta(d.opt_types[i], d1, d2, U, q, T, K, r, v),
      rho |-> get_rho(d.opt_types[i], d2, K, T, r)]

\* BlackScholesModel::get_greeks: one Greeks record per ticker
BlackScholes_get_greeks(o) ==
  [i \in 1..Len(o.opt_data.tickers) |-> GreeksOfRow(o.opt_data, i)]

\* ------------------------------------------------------------ PricingModel
\* The implementations of the trait a batch can be built with: the shipped
\* BlackScholesModel and one implementation supplied by a caller.
Models == {"BlackScholesModel", "CustomModel"}

\* get_price / get_greeks of the caller's implementation: some function of
\* each row other than the Black-Scholes one
Custom_get_price(o) ==
  [i \in 1..Len(o.opt_data.tickers) |->
     Bin("custom_price", Val(o.opt_data.underlying[i]), Val(o.opt_data.strike[i]))]

Custom_get_greeks(o) ==
  [i \in 1..Len(o.opt_data.tickers) |->
     [delta |-> Un("custom_delta", Val(o.opt_data.underlying[i])),
      gamma |-> Const("0.0"), vega |-> Const("0.0"),
      theta |-> Const("0.0"), rho |-> Const("0.0")]]

\* self.model.get_price(self): the call through Box<dyn PricingModel>
Model_get_price(o) ==
  IF o.model = "BlackScholesModel" THEN BlackScholes_get_price(o) ELSE Custom_get_price(o)

\* self.model.get_greeks(self)
Model_get_greeks(o) ==
  IF o.model = "BlackScholesModel" THEN BlackScholes_get_greeks(o) ELSE Custom_get_greeks(o)

\* Options::get_prices as it would be if it extended prices instead of
\* overwriting it
get_prices_append(o) == [o EXCEPT !.prices = @ \o Model_get_price(o)]

\* Options::get_prices: self.prices = self.model.get_price(self)
get_prices(o) == [o EXCEPT !.prices = Model_get_price(o)]

\* Options::get_greeks as it would be if it extended greeks instead of
\* overwriting it
get_greeks_append(o) == [o EXCEPT !.greeks = @ \o Model_get_greeks(o)]

\* Options::get_greeks: self.greeks = self.model.get_greeks(self)
get_greeks(o) == [o EXCEPT !.greeks = Model_get_greeks(o)]

\* -------------------------------------------------------------- utilities
\* `n_options as f64 / size as f64` cast back to usize: the cast truncates,
\* saturates +inf (n / 0) to usize::MAX and maps NaN (0 / 0) to 0.  For the
\* vector lengths a process can hold the f64 quotient truncates to n \div size.
F64DivAsUsize(n, size) ==
  IF size = 0 THEN (IF n = 0 THEN 0 ELSE USIZE_MAX) ELSE n \div size

\* v[a..b] of Rust (0-based, half open) is in range
SliceOk(v, a, b) == a <= b /\ b <= Len(v)

\* v[a..b].to_vec()
Slice(v, a, b) == SubSeq(v, a + 1, b)

\* The nine slices chunk_opt takes of the source columns are all in range
SlicesOk(d, a, b) ==
  /\ SliceOk(d.tickers, a, b) /\ SliceOk(d.opt_types, a, b)
  /\ SliceOk(d.underlying, a, b) /\ SliceOk(d.strike, a, b)
  /\ SliceOk(d.settles, a, b) /\ SliceOk(d.maturities, a, b)
  /\ SliceOk(d.dividend, a, b) /\ SliceOk(d.rfr, a, b)
  /\ SliceOk(d.volatility, a, b)

\* The chunk as it would be if duration were copied from the top of the
\* source's duration column instead of derived from the sliced dates
ChunkOf_stale(d, a, b) ==
  LET o == OptionsNew(
             OptDataNew(Slice(d.tickers, a, b), Slice(d.opt_types, a, b),
                        Slice(d.underlying, a, b), Slice(d.strike, a, b),
                        Slice(d.settles, a, b), Slice(d.maturities, a, b),
                        Slice(d.dividend, a, b), Slice(d.rfr, a, b),
                        Slice(d.volatility, a, b)),
             "BlackScholesModel")
  IN [o EXCEPT !.opt_data.duration = Slice(d.duration, 0, b - a)]

\* Options::new(OptData::new(nine slices [a..b]), Box::new(BlackScholesModel::new()))
ChunkOf(d, a, b) ==
  OptionsNew(
    OptDataNew(Slice(d.tickers, a, b), Slice(d.opt_types, a, b),
               Slice(d.underlying, a, b), Slice(d.strike, a, b),
               Slice(d.settles, a, b), Slice(d.maturities, a, b),
               Slice(d.dividend, a, b), Slice(d.rfr, a, b),
               Slice(d.volatility, a, b)),
    "BlackScholesModel")

\* Outcome of a chunk_opt call: panic is "none" when it returns chunk_vec;
\* iters counts the loop iterations entered, idx is the last value of idx.
ChunkResult(panic, chunk_vec, iters, idx) ==
  [panic |-> panic, chunk_vec |-> chunk_vec, iters |-> iters, idx |-> idx]

\* The loop `for i in 0..=last`: each iteration slices [idx..idx+size]
RECURSIVE ChunkLoop(_, _, _, _, _)
ChunkLoop(d, size, i, last, acc) ==
  LET idx == i * size
  IN IF ~SlicesOk(d, idx, idx + size)
       THEN ChunkResult("slice_out_of_range", acc, i + 1, idx)
     ELSE LET pushed == Append(acc, ChunkOf(d, idx, idx + size))
          IN IF i = last THEN ChunkResult("none", pushed, i + 1, idx)
             ELSE ChunkLoop(d, size, i + 1, last, pushed)

\* chunk_opt from `chunks - 1` on, for size >= 1: the loop over the full
\* chunks, then the chunk [idx..n_options] when there is a remainder
ChunkFrom(d, size, chunks, remaining, overflow_checks) ==
  IF chunks = 0 /\ overflow_checks
    THEN ChunkResult("sub_overflow", <<>>, 0, 0)
  ELSE
    LET n_options == Len(d.tickers)
        last == IF chunks = 0 THEN USIZE_MAX ELSE chunks - 1
        lp == ChunkLoop(d, size, 0, last, <<>>)
    IN IF lp.panic # "none" THEN lp
       ELSE IF remaining # 0
         THEN ChunkResult("none",
                          Append(lp.chunk_vec, ChunkOf(d, lp.idx, n_options)),
                          lp.iters, lp.idx)
       ELSE lp

\* chunk_opt as it would be if a zero size skipped the remainder and the loop
chunk_opt_zero_returns(opt, size, overflow_checks) ==
  LET d == opt.opt_data
      n_options == Len(d.tickers)
      chunks == F64DivAsUsize(n_options, size)
  IN IF size = 0 THEN ChunkResult("none", <<>>, 0, 0)
     ELSE ChunkFrom(d, size, chunks, n_options % size, overflow_checks)

\* chunk_opt(opt, size).  overflow_checks is the build's setting: with it
\* `chunks - 1` panics on 0, without it the subtraction wraps.  The remainder
\* `n_options % size` panics on size 0 in every build.
chunk_opt(opt, size, overflow_checks) ==
  LET d == opt.opt_data
      n_options == Len(d.tickers)
      chunks == F64DivAsUsize(n_options, size)
  IN IF size = 0 THEN ChunkResult("rem_by_zero", <<>>, 0, 0)
     ELSE ChunkFrom(d, size, chunks, n_options % size, overflow_checks)

\* The loop body as it would be if it put opt's rows before ret_opt's
Extend_prepend(ret_opt, opt) ==
  [ret_opt EXCEPT
     !.opt_data = [c \in ContractColumns |-> opt.opt_data[c] \o ret_opt.opt_data[c]],
     !.prices = opt.prices \o ret_opt.prices,
     !.greeks = opt.greeks \o ret_opt.greeks]

\* ret_opt after the body of collect_chunks' loop has run for one opt
Extend(ret_opt, opt) ==
  [ret_opt EXCEPT
     !.opt_data = [c \in ContractColumns |-> ret_opt.opt_data[c] \o opt.opt_data[c]],
     !.prices = ret_opt.prices \o opt.prices,
     !.greeks = ret_opt.greeks \o opt.greeks]

\* The loop `for opt in opts` of collect_chunks, from position k
RECURSIVE CollectFrom(_, _, _)
CollectFrom(ret_opt, opts, k) ==
  IF k > Len(opts) THEN ret_opt
  ELSE CollectFrom(Extend(ret_opt, opts[k]), opts, k + 1)

\* collect_chunks(opts)
collect_chunks(opts) == CollectFrom(OptionsDefault, opts, 1)

\* opts after opts[k].get_prices() or opts[k].get_greeks(): the call has
\* `&mut self` of the one batch and writes that batch's output only.  This
\* variant writes the output of every batch of the Vec.
ComputeOn_every(opts, k, call) ==
  [j \in 1..Len(opts) |->
     IF call = "get_prices" THEN get_prices(opts[j]) ELSE get_greeks(opts[j])]

\* opts after opts[k].get_prices() or opts[k].get_greeks()
ComputeOn(opts, k, call) ==
  [opts EXCEPT ![k] = IF call = "get_prices" THEN get_prices(@) ELSE get_greeks(@)]

\* ------------------------------------------------------------- to_records
\* String / f64 / DateTime to_string()
to_string(x) == Un("to_string", x)

\* enum OptTypes as it would be with a third variant
OptTypes_three == {"Call", "Put", "Straddle"}

\* The variants of enum OptTypes
OptTypes == {"Call", "Put"}

\* Result<OptTypes, ()>
Ok(t) == [ok |-> TRUE, val |-> t]
Err == [ok |-> FALSE, val |-> "()"]

\* char::to_lowercase on the characters the strings below are made of
CharToLowercase(ch) ==
  CASE ch = "C" -> "c" [] ch = "A" -> "a" [] ch = "L" -> "l"
    [] ch = "P" -> "p" [] ch = "U" -> "u" [] ch = "T" -> "t"
    [] OTHER -> ch

\* str::to_lowercase
to_lowercase(s) == [i \in 1..Len(s) |-> CharToLowercase(s[i])]

\* OptTypes::from_str as it would be if it matched s itself
from_str_exact(s) ==
  IF s = <<"c", "a", "l", "l">> THEN Ok("Call")
  ELSE IF s = <<"p", "u", "t">> THEN Ok("Put")
  ELSE Err

\* impl FromStr for OptTypes: a match on the lowercased string
from_str(s) ==
  LET l == to_lowercase(s)
  IN IF l = <<"c", "a", "l", "l">> THEN Ok("Call")
     ELSE IF l = <<"p", "u", "t">> THEN Ok("Put")
     ELSE Err

\* impl ToString for OptTypes as it would be with the two labels exchanged
OptTypes_to_string_swapped(t) ==
  IF t = "Put" THEN <<"C", "a", "l", "l">> ELSE <<"P", "u", "t">>

\* impl ToString for OptTypes
OptTypes_to_string(t) ==
  IF t = "Put" THEN <<"P", "u", "t">> ELSE <<"C", "a", "l", "l">>

\* Outcome of a to_records call: panic is "none" when it returns records
RecordsResult(panic, records) == [panic |-> panic, records |-> records]

\* The record as it would be with underlying and strike in each other's place
RecordOf_swapped(o, i) ==
  <<o.opt_data.tickers[i],
    OptTypes_to_string(o.opt_data.opt_types[i]),
    to_string(Val(o.opt_data.strike[i])),
    to_string(Val(o.opt_data.underlying[i])),
    to_string(Val(o.opt_data.settles[i])),
    to_string(Val(o.opt_data.maturities[i])),
    to_string(o.opt_data.duration[i]),
    to_string(Val(o.opt_data.dividend[i])),
    to_string(Val(o.opt_data.rfr[i])),
    to_string(Val(o.opt_data.volatility[i])),
    to_string(o.prices[i]),
    to_string(o.greeks[i].delta),
    to_string(o.greeks[i].gamma),
    to_string(o.greeks[i].vega),
    to_string(o.greeks[i].theta),
    to_string(o.greeks[i].rho)>>

\* The [String; 16] to_records pushes for row i.  The code names the tenth
\* column opt_data.sigma; it is the volatility column of OptData.
RecordOf(o, i) ==
  <<o.opt_data.tickers[i],
    OptTypes_to_string(o.opt_data.opt_types[i]),
    to_string(Val(o.opt_data.underlying[i])),
    to_string(Val(o.opt_data.strike[i])),
    to_string(Val(o.opt_data.settles[i])),
    to_string(Val(o.opt_data.maturities[i])),
    to_string(o.opt_data.duration[i]),
    to_string(Val(o.opt_data.dividend[i])),
    to_string(Val(o.opt_data.rfr[i])),
    to_string(Val(o.opt_data.volatility[i])),
    to_string(o.prices[i]),
    to_string(o.greeks[i].delta),
    to_string(o.greeks[i].gamma),
    to_string(o.greeks[i].vega),
    to_string(o.greeks[i].theta),
    to_string(o.greeks[i].rho)>>

\* Some row i < tickers.len() is past the end of a sequence the loop indexes
IndexOutOfBounds(o) ==
  \/ \E c \in ContractColumns : Len(o.opt_data[c]) < Len(o.opt_data.tickers)
  \/ Len(o.prices) < Len(o.opt_data.tickers)
  \/ Len(o.greeks) < Len(o.opt_data.tickers)

\* to_records from the loop on, without the check of empty outputs
RecordsLoop(o) ==
  IF IndexOutOfBounds(o) THEN RecordsResult("index_out_of_bounds", <<>>)
  ELSE RecordsResult("none", [i \in 1..Len(o.opt_data.tickers) |-> RecordOf(o, i)])

\* Options::to_records as it would be without the check of empty outputs
to_records_unchecked(o) == RecordsLoop(o)

\* Options::to_records
to_records(o) ==
  IF Len(o.prices) = 0 \/ Len(o.greeks) = 0
    THEN RecordsResult("uninitialized", <<>>)
  ELSE RecordsLoop(o)

\* ------------------------------------------------- lib.rs: the iterator
\* Options::new of lib.rs: the columns, prices from bsm_price and one
\* default Greeks per ticker (init_vals), iter_count 0.  The flat fields are
\* kept in the shape of the batch above, sigma as the volatility column.
LibOptionsNew(rows) ==
  LET o == OptionsNew(
             OptDataNew(Column(rows, "ticker"), Column(rows, "opt_type"),
                        Column(rows, "underlying"), Column(rows, "strike"),
                        Column(rows, "settle"), Column(rows, "maturity"),
                        Column(rows, "dividend"), Column(rows, "rfr"),
                        Column(rows, "volatility")),
             "BlackScholesModel")
  IN [o EXCEPT !.prices = BlackScholes_get_price(o),
               !.greeks = [i \in 1..Len(rows) |-> GreeksDefault]]

\* Option<[String; 16]>: Some carries the index i the record was read at
Some(i, record) == [some |-> TRUE, panic |-> FALSE, row |-> i, record |-> record]
None == [some |-> FALSE, panic |-> FALSE, row |-> 0, record |-> <<>>]
IndexPanic(i) == [some |-> FALSE, panic |-> TRUE, row |-> i, record |-> <<>>]

\* Outcome of a call of next: the Options after it and what it returned
NextResult(self, item) == [self |-> self, item |-> item]

\* Iterator::next as it would be if the bound were tested on the count
\* before its increment
Iterator_next_inclusive(o) ==
  LET i == o.iter_count
      after == [o EXCEPT !.iter_count = i + 1]
  IN IF i <= Len(o.opt_data.tickers)
       THEN IF i + 1 > Len(o.opt_data.tickers) \/ i + 1 > Len(o.prices) \/ i + 1 > Len(o.greeks)
              THEN NextResult(after, IndexPanic(i))
            ELSE NextResult(after, Some(i, RecordOf(o, i + 1)))
     ELSE NextResult(after, None)

\* impl Iterator for Options: next.  Row i of the code is element i + 1 here.
Iterator_next(o) ==
  LET i == o.iter_count
      after == [o EXCEPT !.iter_count = i + 1]
  IN IF after.iter_count <= Len(o.opt_data.tickers)
       THEN IF i + 1 > Len(o.opt_data.tickers) \/ i + 1 > Len(o.prices) \/ i + 1 > Len(o.greeks)
              THEN NextResult(after, IndexPanic(i))
            ELSE NextResult(after, Some(i, RecordOf(o, i + 1)))
     ELSE NextResult(after, None)

\* ------------------------------------------------------------ parse_input
\* The columns parse_input looks up in the header, in the order it pushes them
ColumnNames ==
  <<"ticker", "opt_type", "underlying", "strike", "settle", "maturity",
    "dividend", "rfr", "volatility">>

\* A file: the header's names and the data lines; a line is readable or
\* not (io error), and holds the fields split(',') gives
FileOf(header, lines) == [header |-> header, lines |-> lines]
LineOf(readable, fields) == [readable |-> readable, fields |-> fields]

\* headers.iter().position(|x| x.to_lowercase() == name): 0 stands for None
Position(header, name) ==
  IF \E i \in 1..Len(header) : header[i] = name
    THEN CHOOSE i \in 1..Len(header) :
           header[i] = name /\ \A j \in 1..(i - 1) : header[j] # name
  ELSE 0

\* What the loop body makes of one field: to_string for the ticker,
\* OptTypes::from_str, parse::<f64>, or parse_date and parse_from_rfc3339
ParseField(name, field) ==
  CASE name = "ticker" ->
         Ok(IF field.kind = "ticker" THEN field.val ELSE field.kind)
    [] name = "opt_type" ->
         IF field.kind = "type" THEN from_str(field.val) ELSE Err
    [] name \in {"settle", "maturity"} ->
         IF field.kind = "date" THEN Ok(field.val) ELSE Err
    [] OTHER ->
         IF field.kind = "f64" THEN Ok(field.val) ELSE Err

\* Outcome of the loop body on one line: the values pushed, in the order of
\* ColumnNames, and the panic that ended it, if any
LineResult(panic, pushed) == [panic |-> panic, pushed |-> pushed]

\* The loop body as it would be if a field that does not parse were left
\* out instead of unwrapped
RECURSIVE ParseLine_lenient(_, _, _, _)
ParseLine_lenient(fields, header, k, pushed) ==
  IF k > Len(ColumnNames) THEN LineResult("none", pushed)
  ELSE LET idx == Position(header, ColumnNames[k])
       IN IF idx > Len(fields) THEN LineResult("index_out_of_bounds", pushed)
          ELSE LET r == ParseField(ColumnNames[k], fields[idx])
               IN IF ~r.ok
                    THEN ParseLine_lenient(fields, header, k + 1, Append(pushed, <<>>))
                  ELSE ParseLine_lenient(fields, header, k + 1, Append(pushed, <<r.val>>))

\* The loop body from the k-th push on: inps[idx] panics past the end of
\* the line, unwrap / expect panic on a field that does not parse
RECURSIVE ParseLine(_, _, _, _)
ParseLine(fields, header, k, pushed) ==
  IF k > Len(ColumnNames) THEN LineResult("none", pushed)
  ELSE LET idx == Position(header, ColumnNames[k])
       IN IF idx > Len(fields) THEN LineResult("index_out_of_bounds", pushed)
          ELSE LET r == ParseField(ColumnNames[k], fields[idx])
               IN IF ~r.ok THEN LineResult("unwrap_on_err", pushed)
                  ELSE ParseLine(fields, header, k + 1, Append(pushed, <<r.val>>))

\* The nine vectors, empty
NoColumns == [k \in 1..Len(ColumnNames) |-> <<>>]

\* Outcome of parse_input: panic is "none" when it returns columns and
\* "no_return" when it never leaves its first loop
ParseResult(panic, columns) == [panic |-> panic, columns |-> columns]

\* `for line in lines.flatten()`: lines that fail to read are skipped
RECURSIVE ParseLines(_, _, _, _)
ParseLines(lines, header, n, columns) ==
  IF n > Len(lines) THEN ParseResult("none", columns)
  ELSE IF ~lines[n].readable THEN ParseLines(lines, header, n + 1, columns)
  ELSE LET r == ParseLine(lines[n].fields, header, 1, <<>>)
           after == [k \in 1..Len(ColumnNames) |->
                       IF k <= Len(r.pushed) THEN columns[k] \o r.pushed[k] ELSE columns[k]]
       IN IF r.panic # "none" THEN ParseResult(r.panic, after)
          ELSE ParseLines(lines, header, n + 1, after)

\* parse_input(path) on a file that opens and does not change
parse_input(f) ==
  IF Len(f.lines) = 0 THEN ParseResult("no_return", NoColumns)
  ELSE IF \E k \in 1..Len(ColumnNames) : Position(f.header, ColumnNames[k]) = 0
    THEN ParseResult("no_header", NoColumns)
  ELSE ParseLines(f.lines, f.header, 1, NoColumns)

\* ------------------------------------------------------------------ state
VARIABLES
  pc,               \* "start", "ready", "chunked", "merged" or "panicked"
  overflow_checks,  \* the build panics on integer overflow (debug) or wraps
  opt,              \* the source batch
  size,             \* the chunk size given to chunk_opt
  chunk_res,        \* what chunk_opt did: its panic, or the Vec it returned
  chunk_vec,        \* the chunks, each owned by one worker
  done,             \* per chunk, the compute calls its worker has made
  finished,         \* chunk numbers in the order their workers completed
  failed,           \* chunk numbers whose worker failed in a compute call
  rec,              \* what to_records did: its panic, or the records returned
  merged,           \* the batch returned by collect_chunks
  text,             \* the &str given to OptTypes::from_str, character by character
  parsed,           \* the Result OptTypes::from_str returned
  items,            \* what the calls of Iterator::next returned, in call order
  file,             \* the input file given to parse_input: header and data lines
  parse_res,        \* what parse_input did: returned columns, panic, or no return
  openable,         \* File::open(path) would succeed now (the file system's state)
  attempts,         \* failed File::open calls of retry_open_file so far
  reader            \* what retry_open_file returned: "none" until it returns

\* The state of the calls made outside of the batch pipeline
aux == <<text, parsed, items, file, parse_res, openable, attempts, reader>>

\* The state of the batch pipeline
core == <<pc, overflow_checks, opt, size, chunk_res, chunk_vec, done, finished, failed, rec, merged>>

vars == <<pc, overflow_checks, opt, size, chunk_res, chunk_vec, done, finished, failed, rec, merged, aux>>

ComputeCalls == {"get_prices", "get_greeks"}

Init ==
  /\ pc = "start"
  /\ overflow_checks \in BOOLEAN
  /\ opt = OptionsDefault
  /\ size = 0
  /\ chunk_res = ChunkResult("none", <<>>, 0, 0)
  /\ chunk_vec = <<>>
  /\ done = <<>>
  /\ finished = <<>>
  /\ failed = {}
  /\ rec = RecordsResult("none", <<>>)
  /\ merged = OptionsDefault
  /\ text = <<>>
  /\ parsed = Err
  /\ items = <<>>
  /\ file = FileOf(<<>>, <<>>)
  /\ parse_res = ParseResult("none", NoColumns)
  /\ openable = FALSE
  /\ attempts = 0
  /\ reader = "none"

\* Options::new as it would be if construction also priced the batch
New_priced(rows, model) ==
  /\ pc = "start"
  /\ opt' = get_prices(OptionsNew(
              OptDataNew(Column(rows, "ticker"), Column(rows, "opt_type"),
                         Column(rows, "underlying"), Column(rows, "strike"),
                         Column(rows, "settle"), Column(rows, "maturity"),
                         Column(rows, "dividend"), Column(rows, "rfr"),
                         Column(rows, "volatility")),
              model))
  /\ pc' = "ready"
  /\ UNCHANGED <<overflow_checks, size, chunk_res, chunk_vec, done, finished, failed, rec, merged, aux>>

\* Options::new(OptData::new(columns of rows), Box::new(model))
New(rows, model) ==
  /\ pc = "start"
  /\ opt' = OptionsNew(
              OptDataNew(Column(rows, "ticker"), Column(rows, "opt_type"),
                         Column(rows, "underlying"), Column(rows, "strike"),
                         Column(rows, "settle"), Column(rows, "maturity"),
                         Column(rows, "dividend"), Column(rows, "rfr"),
                         Column(rows, "volatility")),
              model)
  /\ pc' = "ready"
  /\ UNCHANGED <<overflow_checks, size, chunk_res, chunk_vec, done, finished, failed, rec, merged, aux>>

\* opt.get_prices() on the source batch
GetPrices ==
  /\ pc = "ready"
  /\ opt' = get_prices(opt)
  /\ UNCHANGED <<pc, overflow_checks, size, chunk_res, chunk_vec, done, finished, failed, rec, merged, aux>>

\* opt.get_greeks() on the source batch
GetGreeks ==
  /\ pc = "ready"
  /\ opt' = get_greeks(opt)
  /\ UNCHANGED <<pc, overflow_checks, size, chunk_res, chunk_vec, done, finished, failed, rec, merged, aux>>

\* Options::new(OptData::new(...), model) on nine columns given one by one:
\* column c is taken from the rows of other, the eight others from rows
NewColumns(rows, c, other) ==
  LET col(name, f) == Column(IF c = name THEN other ELSE rows, f)
  IN /\ pc = "start"
     /\ IF GetDursPanics(col("settles", "settle"), col("maturities", "maturity"))
          THEN pc' = "new_panicked" /\ opt' = opt
        ELSE /\ pc' = "ready"
             /\ opt' = OptionsNew(
                         OptDataNew(col("tickers", "ticker"), col("opt_types", "opt_type"),
                                    col("underlying", "underlying"), col("strike", "strike"),
                                    col("settles", "settle"), col("maturities", "maturity"),
                                    col("dividend", "dividend"), col("rfr", "rfr"),
                                    col("volatility", "volatility")),
                         "BlackScholesModel")
     /\ UNCHANGED <<overflow_checks, size, chunk_res, chunk_vec, done, finished, failed, rec, merged, aux>>

\* OptTypes::from_str(s)
FromStr(s) ==
  /\ pc = "start"
  /\ text' = s
  /\ parsed' = from_str(s)
  /\ pc' = "parsed"
  /\ UNCHANGED <<overflow_checks, opt, size, chunk_res, chunk_vec, done, finished, failed, rec, merged, items, file, parse_res, openable, attempts, reader>>

\* Options::new of lib.rs on the columns of rows
LibNew(rows) ==
  /\ pc = "start"
  /\ opt' = LibOptionsNew(rows)
  /\ items' = <<>>
  /\ pc' = "iterating"
  /\ UNCHANGED <<overflow_checks, size, chunk_res, chunk_vec, done, finished, failed, rec, merged, text, parsed, file, parse_res, openable, attempts, reader>>

\* One call of opt.next(), as long as no call has panicked
IterNext(max_calls) ==
  /\ pc = "iterating"
  /\ Len(items) < max_calls
  /\ \A k \in 1..Len(items) : ~items[k].panic
  /\ opt' = Iterator_next(opt).self
  /\ items' = Append(items, Iterator_next(opt).item)
  /\ UNCHANGED <<pc, overflow_checks, size, chunk_res, chunk_vec, done, finished, failed, rec, merged, text, parsed, file, parse_res, openable, attempts, reader>>

\* OptData::from_file(path): parse_input, then OptData::new of its columns
FromFile(f) ==
  /\ pc = "start"
  /\ file' = f
  /\ parse_res' = parse_input(f)
  /\ IF parse_res'.panic = "none"
       THEN LET c == parse_res'.columns
            IN IF GetDursPanics(c[5], c[6])
                 THEN pc' = "new_panicked" /\ opt' = opt
               ELSE /\ pc' = "ready"
                    /\ opt' = OptionsNew(
                                OptDataNew(c[1], c[2], c[3], c[4], c[5], c[6], c[7], c[8], c[9]),
                                "BlackScholesModel")
     ELSE /\ pc' = (IF parse_res'.panic = "no_return" THEN "parse_no_return" ELSE "parse_panicked")
          /\ opt' = opt
  /\ UNCHANGED <<overflow_checks, size, chunk_res, chunk_vec, done, finished, failed, rec, merged, text, parsed, items, openable, attempts, reader>>

\* retry_open_file(path) is called
RetryOpenFile ==
  /\ pc = "start"
  /\ pc' = "opening"
  /\ UNCHANGED <<overflow_checks, opt, size, chunk_res, chunk_vec, done, finished, failed, rec, merged, aux>>

\* One iteration of the loop as it would be if a failed open were unwrapped
OpenAttempt_unwrap(max_attempts) ==
  /\ pc = "opening"
  /\ IF openable
       THEN reader' = "BufReader" /\ pc' = "opened" /\ attempts' = attempts
     ELSE reader' = reader /\ pc' = "open_panicked" /\ attempts' = attempts
  /\ UNCHANGED <<overflow_checks, opt, size, chunk_res, chunk_vec, done, finished, failed, rec, merged, text, parsed, items, file, parse_res, openable>>

\* One iteration of the loop of retry_open_file: File::open succeeds and the
\* function returns the reader, or fails and the loop goes round again.  The
\* count of failures is kept up to max_attempts.
OpenAttempt(max_attempts) ==
  /\ pc = "opening"
  /\ IF openable
       THEN reader' = "BufReader" /\ pc' = "opened" /\ attempts' = attempts
     ELSE /\ reader' = reader /\ pc' = pc
          /\ attempts' = IF attempts < max_attempts THEN attempts + 1 ELSE attempts
  /\ UNCHANGED <<overflow_checks, opt, size, chunk_res, chunk_vec, done, finished, failed, rec, merged, text, parsed, items, file, parse_res, openable>>

\* The file system changes: the file appears, or goes away
FileChanges ==
  /\ pc \in {"start", "opening"}
  /\ openable' = ~openable
  /\ UNCHANGED <<pc, overflow_checks, opt, size, chunk_res, chunk_vec, done, finished, failed, rec, merged, text, parsed, items, file, parse_res, attempts, reader>>

\* opt.to_records(): returns the records or panics
ToRecords ==
  /\ pc = "ready"
  /\ rec' = to_records(opt)
  /\ pc' = IF rec'.panic = "none" THEN "flattened" ELSE "flatten_panicked"
  /\ UNCHANGED <<overflow_checks, opt, size, chunk_res, chunk_vec, done, finished, failed, merged, aux>>

\* chunk_opt(opt, sz): returns the chunks or panics
ChunkOpt(sz) ==
  /\ pc = "ready"
  /\ size' = sz
  /\ chunk_res' = chunk_opt(opt, sz, overflow_checks)
  /\ IF chunk_res'.panic = "none"
       THEN /\ pc' = "chunked"
            /\ chunk_vec' = chunk_res'.chunk_vec
            /\ done' = [k \in 1..Len(chunk_res'.chunk_vec) |-> {}]
       ELSE /\ pc' = "panicked"
            /\ UNCHANGED <<chunk_vec, done>>
  /\ UNCHANGED <<overflow_checks, opt, finished, failed, rec, merged, aux>>

\* The worker of chunk k makes one of its two compute calls; it completes
\* with the second one.
WorkerCompute(k, call) ==
  /\ pc = "chunked"
  /\ k \in 1..Len(chunk_vec)
  /\ k \notin failed
  /\ call \notin done[k]
  /\ chunk_vec' = ComputeOn(chunk_vec, k, call)
  /\ done' = [done EXCEPT ![k] = @ \cup {call}]
  /\ finished' = IF done'[k] = ComputeCalls THEN Append(finished, k) ELSE finished
  /\ UNCHANGED <<pc, overflow_checks, opt, size, chunk_res, failed, rec, merged, aux>>

\* The worker of chunk k fails in a compute call: the panic unwinds out of
\* model.get_price / model.get_greeks before the assignment to self.prices /
\* self.greeks, and the worker makes no further call.
WorkerFail(k, call) ==
  /\ pc = "chunked"
  /\ k \in 1..Len(chunk_vec)
  /\ k \notin failed
  /\ Cardinality(failed) < MaxFailures
  /\ call \notin done[k]
  /\ failed' = failed \cup {k}
  /\ UNCHANGED <<pc, overflow_checks, opt, size, chunk_res, chunk_vec, done, finished, rec, merged, aux>>

\* Options::default()
Default ==
  /\ pc = "start"
  /\ opt' = OptionsDefault
  /\ pc' = "defaulted"
  /\ UNCHANGED <<overflow_checks, size, chunk_res, chunk_vec, done, finished, failed, rec, merged, aux>>

\* collect_chunks(opts) on a Vec the caller put together
CollectOf(opts) ==
  /\ pc = "start"
  /\ chunk_vec' = opts
  /\ merged' = collect_chunks(opts)
  /\ pc' = "collected"
  /\ UNCHANGED <<overflow_checks, opt, size, chunk_res, done, finished, failed, rec, aux>>

\* collect_chunks(chunk_vec)
CollectChunks ==
  /\ pc = "chunked"
  /\ merged' = collect_chunks(chunk_vec)
  /\ pc' = "merged"
  /\ UNCHANGED <<overflow_checks, opt, size, chunk_res, chunk_vec, done, finished, failed, rec, aux>>

Next ==
  \/ \E rows \in SeqsUpTo(Contracts, MaxN) : New(rows, "BlackScholesModel")
  \/ GetPrices
  \/ GetGreeks
  \/ ToRecords
  \/ \E sz \in 0..MaxSize : ChunkOpt(sz)
  \/ \E k \in 1..Len(chunk_vec), call \in ComputeCalls : WorkerCompute(k, call)
  \/ CollectChunks

Spec == Init /\ [][Next]_vars

\* Splitting, computing with workers that may fail, and merging
NextFail ==
  \/ \E rows \in SeqsUpTo(Contracts, MaxN) : New(rows, "BlackScholesModel")
  \/ \E sz \in 1..MaxSize : ChunkOpt(sz)
  \/ \E k \in 1..Len(chunk_vec), call \in ComputeCalls : WorkerCompute(k, call)
  \/ \E k \in 1..Len(chunk_vec), call \in ComputeCalls : WorkerFail(k, call)
  \/ CollectChunks

SpecFail == Init /\ [][NextFail]_vars

\* Splitting and computing a batch built with any of the pricing models
NextPlug ==
  \/ \E rows \in SeqsUpTo(Contracts, MaxN), model \in Models : New(rows, model)
  \/ GetPrices
  \/ \E sz \in 1..MaxSize : ChunkOpt(sz)
  \/ \E k \in 1..Len(chunk_vec) : WorkerCompute(k, "get_prices")

SpecPlug == Init /\ [][NextPlug]_vars

\* ------------------------------------------------------------- properties
N == Len(opt.opt_data.tickers)

\* chunk_opt has been called
Called == pc \in {"chunked", "merged", "panicked"}

\* chunk_opt has returned
Returned == pc \in {"chunked", "merged"}

SourceUnpriced == opt.prices = <<>> /\ opt.greeks = <<>>
SourcePriced == Len(opt.prices) = N /\ Len(opt.greeks) = N
NoWorkerCall == \A k \in 1..Len(done) : done[k] = {}
AllComputed == \A k \in 1..Len(done) : done[k] = ComputeCalls

Rows(o) == Len(o.opt_data.tickers)
Ceil(n, s) == (n + s - 1) \div s

RECURSIVE SumLen(_, _)
SumLen(parts, k) == IF k = 0 THEN 0 ELSE SumLen(parts, k - 1) + Len(parts[k])

\* out is parts[1] followed by parts[2] ... followed by the last part
IsConcat(out, parts) ==
  /\ Len(out) = SumLen(parts, Len(parts))
  /\ \A k \in 1..Len(parts) : \A j \in 1..Len(parts[k]) :
       out[SumLen(parts, k - 1) + j] = parts[k][j]

\* C1: splitting an unpriced batch with a chunk size >= 1 and merging the
\* chunks gives back each of the ten contract columns, row for row.
C1_RoundTripContractData ==
  (pc = "merged" /\ size >= 1 /\ SourceUnpriced)
    => \A c \in ContractColumns : merged.opt_data[c] = opt.opt_data[c]

\* C2 (as claimed): splitting a priced batch and merging the chunks gives
\* back the batch's prices and greeks.
C2_RoundTripPriced ==
  (pc = "merged" /\ size >= 1 /\ SourcePriced /\ NoWorkerCall)
    => merged.prices = opt.prices /\ merged.greeks = opt.greeks

\* C2 (amended): every chunk chunk_opt returns has empty prices and greeks,
\* whatever the source batch had computed, so merging the chunks without
\* computing them gives a batch with empty prices and greeks.
C2_SplitDiscardsOutputs ==
  Returned =>
    /\ \A k \in 1..Len(chunk_res.chunk_vec) :
         chunk_res.chunk_vec[k].prices = <<>> /\ chunk_res.chunk_vec[k].greeks = <<>>
    /\ (pc = "merged" /\ NoWorkerCall) => (merged.prices = <<>> /\ merged.greeks = <<>>)

C2_Witness ==
  /\ pc = "merged" /\ NoWorkerCall /\ N >= 2 /\ size >= 1
  /\ Len(opt.prices) = N /\ Len(opt.greeks) = N

\* C3: computing every chunk and merging gives N rows with the prices and
\* greeks that computing the unsplit batch gives.
C3_SplitComputeMerge ==
  (pc = "merged" /\ size >= 1 /\ AllComputed)
    => /\ Rows(merged) = N
       /\ merged.prices = BlackScholes_get_price(opt)
       /\ merged.greeks = BlackScholes_get_greeks(opt)

\* C4: whatever order the workers complete in, row i of the merged batch is
\* source row i: its contract columns, its price and its greeks.
C4_RowsInSourceOrder ==
  (pc = "merged" /\ Len(finished) = Len(chunk_vec))
    => \A i \in 1..Rows(merged) :
         /\ i <= N
         /\ \A c \in ContractColumns : merged.opt_data[c][i] = opt.opt_data[c][i]
         /\ merged.prices[i] = PriceOfRow(opt.opt_data, i)
         /\ merged.greeks[i] = GreeksOfRow(opt.opt_data, i)

\* C5: for a chunk size >= 1, chunk_opt returns exactly ceil(N/size) chunks.
C5_PartitionCount ==
  (Called /\ size >= 1)
    => chunk_res.panic = "none" /\ Len(chunk_res.chunk_vec) = Ceil(N, size)

\* C6: every returned chunk but the last has size rows, and the last has
\* N - (chunks-1)*size rows.
C6_ChunkSizes ==
  (Returned /\ size >= 1)
    => LET m == Len(chunk_res.chunk_vec)
       IN \A k \in 1..m :
            Rows(chunk_res.chunk_vec[k]) = IF k < m THEN size ELSE N - (m - 1) * size

\* C7: with N >= 1 and size >= N, chunk_opt returns one chunk whose contract
\* columns are those of the whole batch.
C7_OneChunkWhenSizeCoversBatch ==
  (Called /\ N >= 1 /\ size >= N)
    => /\ chunk_res.panic = "none"
       /\ Len(chunk_res.chunk_vec) = 1
       /\ chunk_res.chunk_vec[1].opt_data = opt.opt_data

\* C8: on an empty batch and a chunk size >= 1, chunk_opt returns an empty
\* sequence of chunks and does not fail.
C8_EmptyBatchNoChunks ==
  (Called /\ N = 0 /\ size >= 1)
    => chunk_res.panic = "none" /\ chunk_res.chunk_vec = <<>>

\* C9: chunk_opt with chunk size 0 fails on the remainder by zero, before the
\* loop is entered and before any chunk is produced; it never returns.
C9_ZeroSizeRejected ==
  (Called /\ size = 0)
    => /\ pc = "panicked"
       /\ chunk_res.panic = "rem_by_zero"
       /\ chunk_res.iters = 0
       /\ chunk_res.chunk_vec = <<>>

C9_Witness == pc = "panicked" /\ size = 0 /\ N >= 1

\* C10: the batch collect_chunks returns has, in each contract column and
\* in prices and greeks, the concatenation of the chunks' sequences in the
\* order of the chunks.
C10_MergeIsConcatenation ==
  pc = "merged" =>
    /\ \A c \in ContractColumns :
         IsConcat(merged.opt_data[c],
                  [k \in 1..Len(chunk_vec) |-> chunk_vec[k].opt_data[c]])
    /\ IsConcat(merged.prices, [k \in 1..Len(chunk_vec) |-> chunk_vec[k].prices])
    /\ IsConcat(merged.greeks, [k \in 1..Len(chunk_vec) |-> chunk_vec[k].greeks])

C10_Witness ==
  /\ pc = "merged" /\ Len(chunk_vec) >= 2
  /\ chunk_vec[1].opt_data # chunk_vec[2].opt_data
  /\ \E k1, k2 \in 1..Len(chunk_vec) :
       /\ chunk_vec[k1].prices # <<>> /\ chunk_vec[k2].prices = <<>>
       /\ chunk_vec[k1].greeks # <<>>

\* Each output of o is empty or has one element per contract
OutputsOk(o) == Len(o.prices) \in {0, Rows(o)} /\ Len(o.greeks) \in {0, Rows(o)}

\* The workers made the compute call on every chunk or on none
CalledOnAllOrNone(call) ==
  \A k1, k2 \in 1..Len(done) : (call \in done[k1]) = (call \in done[k2])

\* C11 (as claimed): in every reachable state the source batch, every chunk
\* and the merged batch have prices empty or of the contract count's length,
\* and greeks likewise, also when only some of the merged chunks were priced.
C11_OutputLengthInvariant ==
  /\ OutputsOk(opt)
  /\ \A k \in 1..Len(chunk_vec) : OutputsOk(chunk_vec[k])
  /\ OutputsOk(merged)

\* C11 (amended): the source batch and every chunk always have prices empty
\* or of the contract count's length, and greeks likewise; the merged batch
\* has prices so when get_prices was called on all of the merged chunks or
\* on none, and greeks so when get_greeks was called on all or on none.
C11_OutputLengths ==
  /\ OutputsOk(opt)
  /\ \A k \in 1..Len(chunk_vec) : OutputsOk(chunk_vec[k])
  /\ (pc = "merged" /\ CalledOnAllOrNone("get_prices"))
       => Len(merged.prices) \in {0, Rows(merged)}
  /\ (pc = "merged" /\ CalledOnAllOrNone("get_greeks"))
       => Len(merged.greeks) \in {0, Rows(merged)}

C11_Witness ==
  /\ pc = "merged" /\ Len(chunk_vec) >= 2 /\ AllComputed
  /\ Len(opt.prices) = N /\ N >= 2
  /\ Len(merged.prices) = Rows(merged) /\ Len(merged.greeks) = Rows(merged)

C13_SplitPreservesModel ==
  Returned =>
    \A k \in 1..Len(chunk_vec) :
      /\ chunk_vec[k].model = opt.model
      /\ "get_prices" \in done[k] =>
           chunk_vec[k].prices = Model_get_price([chunk_vec[k] EXCEPT !.model = opt.model])

\* to_records has been called on the source batch
Flattening == pc \in {"flattened", "flatten_panicked"}

\* C14: on a batch with N >= 1 contracts whose prices or greeks are still
\* empty, to_records fails at its check of the outputs and returns no record.
C14_FlattenBeforeComputeFails ==
  (Flattening /\ N >= 1 /\ (opt.prices = <<>> \/ opt.greeks = <<>>))
    => /\ pc = "flatten_panicked"
       /\ rec.panic = "uninitialized"
       /\ rec.records = <<>>

C14_Witness ==
  /\ pc = "flatten_panicked" /\ N >= 1
  /\ opt.prices # <<>> /\ opt.greeks = <<>>

\* C15: on a batch with N >= 1 contracts with both outputs computed,
\* to_records returns N records of 16 fields: ticker, opt_type, underlying,
\* strike, settle, maturity, duration, dividend, rfr, volatility, price,
\* delta, gamma, vega, theta, rho, all of row i.
C15_FlattenAfterCompute ==
  (Flattening /\ N >= 1 /\ Len(opt.prices) = N /\ Len(opt.greeks) = N)
    => /\ pc = "flattened"
       /\ Len(rec.records) = N
       /\ \A i \in 1..N :
            LET r == rec.records[i]
                d == opt.opt_data
            IN /\ Len(r) = 16
               /\ r[1] = d.tickers[i]
               /\ r[2] = (IF d.opt_types[i] = "Call" THEN <<"C", "a", "l", "l">>
                                                     ELSE <<"P", "u", "t">>)
               /\ r[3] = to_string(Val(d.underlying[i]))
               /\ r[4] = to_string(Val(d.strike[i]))
               /\ r[5] = to_string(Val(d.settles[i]))
               /\ r[6] = to_string(Val(d.maturities[i]))
               /\ r[7] = to_string(d.duration[i])
               /\ r[8] = to_string(Val(d.dividend[i]))
               /\ r[9] = to_string(Val(d.rfr[i]))
               /\ r[10] = to_string(Val(d.volatility[i]))
               /\ r[11] = to_string(opt.prices[i])
               /\ r[12] = to_string(opt.greeks[i].delta)
               /\ r[13] = to_string(opt.greeks[i].gamma)
               /\ r[14] = to_string(opt.greeks[i].vega)
               /\ r[15] = to_string(opt.greeks[i].theta)
               /\ r[16] = to_string(opt.greeks[i].rho)

C15_Witness ==
  /\ pc = "flattened" /\ N >= 2 /\ Len(rec.records) = N
  /\ opt.opt_data.tickers[1] # opt.opt_data.tickers[2]

\* ---------------------------------------------- columns given one by one
\* The nine columns OptData::new takes
InputColumns == ContractColumns \ {"duration"}

NextData ==
  \E rows \in SeqsUpTo(Contracts, MaxN), c \in InputColumns, other \in SeqsUpTo(Contracts, MaxN) :
     NewColumns(rows, c, other)

SpecData == Init /\ [][NextData]_vars

\* C16: a batch that OptData::new has returned has every column, duration
\* included, of the same length: new fails on columns of differing lengths.
C16_NewRejectsMisaligned ==
  pc = "ready" =>
    \A c \in ContractColumns : Len(opt.opt_data[c]) = Len(opt.opt_data.tickers)

\* C17: get_prices changes only prices and get_greeks only greeks; each
\* overwrites its output with a sequence of length N and leaves the ten
\* contract columns and the other output as they were, and a further call
\* leaves the batch as the first call left it.
C17_ComputeFrame ==
  [][ /\ GetPrices =>
           /\ opt'.opt_data = opt.opt_data
           /\ opt'.greeks = opt.greeks
           /\ opt'.model = opt.model
           /\ Len(opt'.prices) = N
           /\ get_prices(opt') = opt'
      /\ GetGreeks =>
           /\ opt'.opt_data = opt.opt_data
           /\ opt'.prices = opt.prices
           /\ opt'.model = opt.model
           /\ Len(opt'.greeks) = N
           /\ get_greeks(opt') = opt' ]_vars

C17_Witness ==
  /\ pc = "ready" /\ N >= 1
  /\ Len(opt.prices) = N /\ Len(opt.greeks) = N
  /\ get_prices(get_greeks(opt)) = opt

\* The batch holding row i of o alone
RowBatch(o, i) ==
  [o EXCEPT !.opt_data = [c \in ContractColumns |-> <<o.opt_data[c][i]>>]]

\* C18: for a batch of N contracts get_price returns N prices and get_greeks
\* N Greeks records, and element i is what the model returns for the batch
\* holding row i alone: it depends on no other row.
C18_OutputShape ==
  pc = "ready" =>
    LET p == BlackScholes_get_price(opt)
        g == BlackScholes_get_greeks(opt)
    IN /\ Len(p) = N /\ Len(g) = N
       /\ \A i \in 1..N :
            /\ p[i] = BlackScholes_get_price(RowBatch(opt, i))[1]
            /\ g[i] = BlackScholes_get_greeks(RowBatch(opt, i))[1]
       /\ opt.prices # <<>> => opt.prices = p
       /\ opt.greeks # <<>> => opt.greeks = g

C18_Witness ==
  /\ pc = "ready" /\ N >= 2
  /\ opt.opt_data.opt_types[1] # opt.opt_data.opt_types[2]
  /\ opt.prices = BlackScholes_get_price(opt)
  /\ opt.greeks = BlackScholes_get_greeks(opt)

\* C19: Options::new returns a batch with prices and greeks empty, for the
\* source batch and for every chunk, and an output changes only in a step of
\* get_prices or get_greeks on that batch.
C19_NewBatchUnpriced ==
  [][ /\ (pc = "start" /\ pc' = "ready") =>
           opt'.prices = <<>> /\ opt'.greeks = <<>>
      /\ (pc = "ready" /\ pc' = "chunked") =>
           \A k \in 1..Len(chunk_vec') :
              chunk_vec'[k].prices = <<>> /\ chunk_vec'[k].greeks = <<>>
      /\ opt'.prices # opt.prices => GetPrices
      /\ opt'.greeks # opt.greeks => GetGreeks
      /\ pc = "chunked" =>
           \A k \in 1..Len(chunk_vec) :
              /\ chunk_vec'[k].prices # chunk_vec[k].prices
                   => WorkerCompute(k, "get_prices")
              /\ chunk_vec'[k].greeks # chunk_vec[k].greeks
                   => WorkerCompute(k, "get_greeks") ]_vars

C19_Witness ==
  /\ pc = "chunked" /\ N >= 1 /\ SourceUnpriced
  /\ Len(chunk_vec) >= 1 /\ NoWorkerCall
  /\ \A k \in 1..Len(chunk_vec) : chunk_vec[k].prices = <<>> /\ chunk_vec[k].greeks = <<>>

\* Offset in the source of the first row of chunk k: i * size for the chunks
\* of the loop, the last value of idx for the chunk pushed after it
ChunkStart(k) == IF k <= chunk_res.iters THEN (k - 1) * size ELSE chunk_res.idx

\* C20: in every chunk chunk_opt returns, duration is as long as the other
\* columns and duration[j] is the source's duration of the row the chunk's
\* row j was sliced from.
C20_DurationCarried ==
  Returned =>
    \A k \in 1..Len(chunk_vec) :
      LET c == chunk_vec[k].opt_data
      IN /\ \A col \in ContractColumns : Len(c[col]) = Len(c.duration)
         /\ \A j \in 1..Len(c.duration) :
              /\ c.settles[j] = opt.opt_data.settles[ChunkStart(k) + j]
              /\ c.maturities[j] = opt.opt_data.maturities[ChunkStart(k) + j]
              /\ c.duration[j] = opt.opt_data.duration[ChunkStart(k) + j]

C20_Witness ==
  /\ Returned /\ Len(chunk_vec) >= 2
  /\ Len(chunk_vec[2].opt_data.duration) >= 1
  /\ chunk_vec[2].opt_data.duration[1] # opt.opt_data.duration[1]

\* -------------------------------------------------- option types as text
\* Longest string given to from_str
MaxStrLen == 4

\* The characters the strings given to from_str are made of
Chars == {"c", "C", "a", "A", "l", "L", "p", "P", "u", "U", "t", "T", " "}

\* The strings given to from_str
Strings == SeqsUpTo(Chars, MaxStrLen)

NextText == pc = "start" /\ \E s \in Strings : FromStr(s)

SpecText == Init /\ [][NextText]_vars

\* s spells "call" / "put" in some mix of upper and lower case
SpellsCall(s) ==
  /\ Len(s) = 4
  /\ s[1] \in {"c", "C"} /\ s[2] \in {"a", "A"}
  /\ s[3] \in {"l", "L"} /\ s[4] \in {"l", "L"}
SpellsPut(s) ==
  /\ Len(s) = 3
  /\ s[1] \in {"p", "P"} /\ s[2] \in {"u", "U"} /\ s[3] \in {"t", "T"}

\* C21: from_str returns Call for every upper/lower-case spelling of "call",
\* Put for every spelling of "put", and an error for every other string, the
\* empty string and strings with surrounding whitespace included.
C21_FromStr ==
  pc = "parsed" =>
    /\ SpellsCall(text) => parsed = Ok("Call")
    /\ SpellsPut(text) => parsed = Ok("Put")
    /\ (~SpellsCall(text) /\ ~SpellsPut(text)) => parsed = Err

C21_Witness ==
  /\ pc = "parsed" /\ text = <<"C", "a", "L", "l">> /\ parsed = Ok("Call")

\* C22: to_string gives the label "Call" for Call and "Put" for Put, and
\* from_str of the label gives the option type back.
C22_TextRoundTrip ==
  /\ OptTypes_to_string("Call") = <<"C", "a", "l", "l">>
  /\ OptTypes_to_string("Put") = <<"P", "u", "t">>
  /\ pc = "parsed" =>
       \A t \in OptTypes : text = OptTypes_to_string(t) => parsed = Ok(t)

C22_Witness ==
  /\ pc = "parsed" /\ text = OptTypes_to_string("Put") /\ parsed = Ok("Put")

\* ------------------------------------------------ default and bare merges
\* Longest Vec given to collect_chunks by a caller
MaxParts == 2

\* Batches of at most one contract, unpriced or with outputs computed
PartBatches ==
  LET fresh == { OptionsNew(
                   OptDataNew(Column(rows, "ticker"), Column(rows, "opt_type"),
                              Column(rows, "underlying"), Column(rows, "strike"),
                              Column(rows, "settle"), Column(rows, "maturity"),
                              Column(rows, "dividend"), Column(rows, "rfr"),
                              Column(rows, "volatility")),
                   "BlackScholesModel") : rows \in SeqsUpTo(Contracts, 1) }
  IN fresh \cup { get_prices(o) : o \in fresh } \cup { get_greeks(o) : o \in fresh }
       \cup { get_greeks(get_prices(o)) : o \in fresh }

\* The Vecs given to collect_chunks
PartVecs == SeqsUpTo(PartBatches, MaxParts)

NextMerge ==
  \/ Default
  \/ pc = "start" /\ \E opts \in PartVecs : CollectOf(opts)

SpecMerge == Init /\ [][NextMerge]_vars

\* o has no contract, no output and the Black-Scholes model
EmptyBlackScholes(o) ==
  /\ \A c \in ContractColumns : o.opt_data[c] = <<>>
  /\ Len(o.opt_data.tickers) = 0
  /\ o.prices = <<>> /\ o.greeks = <<>>
  /\ o.model = "BlackScholesModel"

\* C23: Options::default() has the ten contract columns, prices and greeks
\* empty and carries a Black-Scholes model, and collect_chunks of an empty
\* Vec returns a batch in exactly that state.
C23_DefaultIsEmpty ==
  /\ pc = "defaulted" => EmptyBlackScholes(opt)
  /\ (pc = "collected" /\ chunk_vec = <<>>) =>
        EmptyBlackScholes(merged) /\ merged = OptionsDefault

C23_Witness ==
  pc = "collected" /\ chunk_vec = <<>> /\ merged.opt_data.tickers = <<>>

\* ------------------------------------------------------- values of terms
\* The f64 terms are given values in the field of integers modulo a prime:
\* sums, products and quotients are the field's, the library functions are
\* fixed maps of the field, and the normal distribution keeps its symmetries
\* cdf(-x) = 1 - cdf(x) and pdf(-x) = pdf(x).  Terms that are equal as real
\* expressions built from the same library calls have equal values.
Modulus == 10007

FAdd(a, b) == (a + b) % Modulus
FSub(a, b) == (a + Modulus - b) % Modulus
FMul(a, b) == (a * b) % Modulus
FNeg(a) == (Modulus - a) % Modulus

RECURSIVE FPow(_, _)
FPow(a, e) ==
  IF e = 0 THEN 1
  ELSE LET h == FPow(a, e \div 2)
       IN IF e % 2 = 0 THEN FMul(h, h) ELSE FMul(FMul(h, h), a)

\* 1 / a; the quotient by zero is given the value 0
FInv(a) == IF a = 0 THEN 0 ELSE FPow(a, Modulus - 2)
FDiv(a, b) == FMul(a, FInv(b))

\* The map standing for a library function of one argument
LibValue(k, c, v) == FAdd(FAdd(FMul(k, FMul(v, v)), FMul(c, v)), k + c)

\* v or -v, whichever is the smaller residue
FAbs(v) == IF v <= (Modulus - 1) \div 2 THEN v ELSE Modulus - v

CdfValue(v) ==
  IF v = 0 THEN FInv(2)
  ELSE IF v <= (Modulus - 1) \div 2 THEN LibValue(17, 233, v)
  ELSE FSub(1, LibValue(17, 233, Modulus - v))

ConstValue(name) ==
  CASE name = "0.0" -> 0
    [] name = "1.0" -> 1
    [] name = "-1.0" -> FNeg(1)
    [] name = "2.0" -> 2
    [] name = "100.0" -> 100
    [] name = "365.25" -> FDiv(1461, 4)
    [] name = "SEC_YEAR" -> 31557600 % Modulus
    [] OTHER -> 0

RECURSIVE Value(_)
Value(t) ==
  CASE Len(t) = 1 -> t[1] % Modulus
    [] Len(t) = 4 -> ConstValue(t[2])
    [] Len(t) = 2 ->
         LET a == Value(t[2])
         IN CASE t[1] = "neg" -> FNeg(a)
              [] t[1] = "exp" -> LibValue(3, 101, a)
              [] t[1] = "ln" -> LibValue(5, 211, a)
              [] t[1] = "sqrt" -> LibValue(7, 307, a)
              [] t[1] = "pdf" -> LibValue(11, 401, FAbs(a))
              [] t[1] = "cdf" -> CdfValue(a)
              [] OTHER -> LibValue(13, 503, a)
    [] Len(t) = 3 ->
         LET a == Value(t[2])
             b == Value(t[3])
         IN CASE t[1] = "add" -> FAdd(a, b)
              [] t[1] = "sub" -> FSub(a, b)
              [] t[1] = "mul" -> FMul(a, b)
              [] t[1] = "div" -> FDiv(a, b)
              [] t[1] = "powf" -> FPow(a, b)
              [] OTHER -> LibValue(19, 601, FAdd(FMul(a, 29), b))

\* ------------------------------------------------------- put-call parity
\* Each contract as a Call and as a Put
ParityContracts == { [c EXCEPT !.opt_type = t] : c \in Contracts, t \in OptTypes }

NextParity ==
  \/ \E rows \in SeqsUpTo(ParityContracts, MaxN) : New(rows, "BlackScholesModel")
  \/ GetPrices
  \/ GetGreeks

SpecParity == Init /\ [][NextParity]_vars

\* Row i is a Call, row j a Put, and they agree in every other input of
\* the price
CallPutPair(d, i, j) ==
  /\ d.opt_types[i] = "Call" /\ d.opt_types[j] = "Put"
  /\ \A c \in {"underlying", "strike", "dividend", "rfr", "volatility", "duration"} :
       d[c][i] = d[c][j]

\* U * e^(-qT) - K * e^(-rT) for row i
ParityDifference(d, i) ==
  Sub(Mul(Val(d.underlying[i]), Exp(Neg(Mul(Val(d.dividend[i]), d.duration[i])))),
      Mul(Val(d.strike[i]), Exp(Neg(Mul(Val(d.rfr[i]), d.duration[i])))))

ClaimedTheta(d, i) ==
  LET U == Val(d.underlying[i])
      K == Val(d.strike[i])
      q == Val(d.dividend[i])
      r == Val(d.rfr[i])
      v == Val(d.volatility[i])
      T == d.duration[i]
      d1 == RowD1(d, i)
      d2 == RowD2(d, i)
      Eq == Exp(Neg(Mul(q, T)))
      Er == Exp(Neg(Mul(r, T)))
      first == Neg(Div(Mul(Mul(Mul(U, v), Eq), Pdf(d1)), Mul(Const("2.0"), Sqrt(T))))
  IN IF d.opt_types[i] = "Call"
       THEN Mul(Div(Const("1.0"), Const("365.25")),
                Add(Sub(first, Mul(Mul(Mul(r, K), Er), Cdf(d2))),
                    Mul(Mul(Mul(q, U), Eq), Cdf(d1))))
     ELSE Mul(Div(Const("1.0"), Const("365.25")),
              Sub(Add(first, Mul(Mul(Mul(r, K), Er), Cdf(Neg(d2)))),
                  Mul(Mul(Mul(q, U), Eq), Cdf(Neg(d1)))))

\* C25: the theta get_greeks computes for a row is the claimed expression:
\* -U*sigma*e^(-qT)*pdf(d1) over 2*sqrt(T), then the Call or Put terms, the
\* whole times 1/365.25.
C25_ThetaFormula ==
  (pc = "ready" /\ Len(opt.greeks) = N) =>
    \A i \in 1..N :
      Value(opt.greeks[i].theta) = Value(ClaimedTheta(opt.opt_data, i))

\* The other two terms of theta are as claimed: with the first term taken
\* out of both, the computed and the claimed theta agree
C25_OtherTermsAgree ==
  (pc = "ready" /\ Len(opt.greeks) = N) =>
    \A i \in 1..N :
      FSub(Value(opt.greeks[i].theta),
           Value(Mul(Div(Const("1.0"), Const("365.25")),
                     Neg(ThetaFirstTerm(RowD1(opt.opt_data, i), Val(opt.opt_data.underlying[i]),
                                        Val(opt.opt_data.dividend[i]), opt.opt_data.duration[i],
                                        Val(opt.opt_data.volatility[i]))))))
        = FSub(Value(ClaimedTheta(opt.opt_data, i)),
               Value(Mul(Div(Const("1.0"), Const("365.25")),
                         Neg(Div(Mul(Mul(Mul(Val(opt.opt_data.underlying[i]),
                                             Val(opt.opt_data.volatility[i])),
                                         Exp(Neg(Mul(Val(opt.opt_data.dividend[i]),
                                                     opt.opt_data.duration[i])))),
                                     Pdf(RowD1(opt.opt_data, i))),
                                 Mul(Const("2.0"), Sqrt(opt.opt_data.duration[i])))))))

\* C26: for every batch and every row get_price takes the Call branch or the
\* Put branch: no row has another option type, and no price is the result
\* of the panicking fall-through.
C26_NoOtherOptionType ==
  \A i \in 1..N :
    /\ opt.opt_data.opt_types[i] \in {"Call", "Put"}
    /\ PriceOfRow(opt.opt_data, i) # Const("panic")
    /\ i <= Len(opt.prices) => opt.prices[i] # Const("panic")

C26_Witness ==
  /\ pc = "ready" /\ N >= 2 /\ Len(opt.prices) = N
  /\ \E i, j \in 1..N : opt.opt_data.opt_types[i] = "Call" /\ opt.opt_data.opt_types[j] = "Put"
  /\ \A i \in 1..N : opt.prices[i] = PriceOfRow(opt.opt_data, i)

\* C27: whenever prices and greeks both have the length N of the batch,
\* N = 0 included, to_records returns N records and does not fail.
C27_FlattenAcceptsComputed ==
  (Flattening /\ Len(opt.prices) = N /\ Len(opt.greeks) = N)
    => pc = "flattened" /\ rec.panic = "none" /\ Len(rec.records) = N

\* ---------------------------------------------------------- the iterator
\* Most calls of next made on one Options value
MaxCalls == 5

NextIter ==
  \/ \E rows \in SeqsUpTo(Contracts, MaxN) : LibNew(rows)
  \/ IterNext(MaxCalls)

SpecIter == Init /\ [][NextIter]_vars

\* C28: on an Options value with N rows the first N calls of next return
\* the records of rows 0 .. N-1 in that order, every later call returns
\* None, and no call indexes a row >= N.
C28_IteratorFiniteOrdered ==
  pc = "iterating" =>
    /\ opt.iter_count = Len(items)
    /\ \A k \in 1..Len(items) :
         /\ ~items[k].panic
         /\ k <= N => /\ items[k].some
                      /\ items[k].row = k - 1
                      /\ items[k].record[1] = opt.opt_data.tickers[k]
                      /\ items[k].record[11] = to_string(opt.prices[k])
                      /\ items[k].record = RecordOf(opt, k)
         /\ k > N => items[k] = None
         /\ items[k].some => items[k].row < N

C28_Witness ==
  /\ pc = "iterating" /\ N >= 2 /\ Len(items) >= N + 2
  /\ items[N].some /\ ~items[N + 1].some /\ ~items[N + 2].some

\* ----------------------------------------------------------- input files
\* Most data lines of an input file
MaxLines == 2

\* The headers of the input files: the columns in the order of ColumnNames,
\* with the first two exchanged, and without the last
Headers ==
  { ColumnNames,
    <<"opt_type", "ticker", "underlying", "strike", "settle", "maturity",
      "dividend", "rfr", "volatility">>,
    SubSeq(ColumnNames, 1, Len(ColumnNames) - 1) }

\* The field of contract c under the header's name
FieldOf(c, name) ==
  CASE name = "ticker" -> [kind |-> "ticker", val |-> c.ticker]
    [] name = "opt_type" -> [kind |-> "type", val |-> OptTypes_to_string(c.opt_type)]
    [] name = "underlying" -> [kind |-> "f64", val |-> c.underlying]
    [] name = "strike" -> [kind |-> "f64", val |-> c.strike]
    [] name = "settle" -> [kind |-> "date", val |-> c.settle]
    [] name = "maturity" -> [kind |-> "date", val |-> c.maturity]
    [] name = "dividend" -> [kind |-> "f64", val |-> c.dividend]
    [] name = "rfr" -> [kind |-> "f64", val |-> c.rfr]
    [] OTHER -> [kind |-> "f64", val |-> c.volatility]

\* What can be wrong with a data line
Defects == {"none", "unreadable", "short", "bad_type", "bad_number", "bad_date"}

\* The line of contract c under header h, with the defect
DataLine(h, c, defect) ==
  LET whole == [i \in 1..Len(h) |->
                  IF defect = "bad_type" /\ h[i] = "opt_type"
                    THEN [kind |-> "type", val |-> <<"c", "a", "l">>]
                  ELSE IF defect = "bad_number" /\ h[i] = "strike"
                    THEN [kind |-> "junk", val |-> 0]
                  ELSE IF defect = "bad_date" /\ h[i] = "maturity"
                    THEN [kind |-> "junk", val |-> 0]
                  ELSE FieldOf(c, h[i])]
  IN LineOf(defect # "unreadable",
            IF defect = "short" THEN SubSeq(whole, 1, Len(h) - 1) ELSE whole)

\* The input files
Files ==
  UNION { { FileOf(h, lines) :
              lines \in SeqsUpTo({ DataLine(h, c, x) : c \in Contracts, x \in Defects }, MaxLines) } :
          h \in Headers }

NextFile == pc = "start" /\ \E f \in Files : FromFile(f)

SpecFile == Init /\ [][NextFile]_vars

\* The data lines of the file that were read
ReadLines == { n \in 1..Len(file.lines) : file.lines[n].readable }

\* C29: whenever parse_input returns, its nine columns all have the length
\* of the number of data rows read, so OptData::new gets columns of equal
\* length; with a malformed field in a row it does not return.
C29_ParsedColumnsAligned ==
  /\ pc \in {"ready", "new_panicked"} =>
       /\ parse_res.panic = "none"
       /\ \A k \in 1..Len(ColumnNames) :
            Len(parse_res.columns[k]) = Cardinality(ReadLines)
       /\ \A n \in ReadLines : \A i \in 1..Len(file.header) :
            /\ Len(file.lines[n].fields) = Len(file.header)
            /\ file.lines[n].fields[i].kind # "junk"
            /\ file.lines[n].fields[i].kind = "type" =>
                 to_lowercase(file.lines[n].fields[i].val)
                   \in {<<"c", "a", "l", "l">>, <<"p", "u", "t">>}
  /\ pc = "ready" =>
       \A c \in ContractColumns : Len(opt.opt_data[c]) = Cardinality(ReadLines)

C29_Witness ==
  /\ pc = "ready" /\ Len(file.lines) = 2 /\ Cardinality(ReadLines) = 1
  /\ Len(parse_res.columns[1]) = 1 /\ Len(parse_res.columns[9]) = 1
  /\ file.header[1] = "opt_type"

\* -------------------------------------------------------- retry_open_file
\* Most failed opens counted
MaxAttempts == 24

NextOpen ==
  \/ RetryOpenFile
  \/ OpenAttempt(MaxAttempts)
  \/ FileChanges

\* The thread in the loop keeps running: an iteration that can be taken is
\* eventually taken
SpecOpen == Init /\ [][NextOpen]_vars /\ WF_vars(OpenAttempt(MaxAttempts))

\* C30: retry_open_file returns only in a step whose open succeeded; while
\* the open fails it stays in its loop, neither returning nor panicking;
\* and if the file becomes openable and stays so, the call returns.
C30_RetryUntilOpen ==
  /\ [][ /\ (pc # "opened" /\ pc' = "opened") => (openable /\ reader' = "BufReader")
         /\ (pc = "opening" /\ ~openable) => (pc' = "opening" /\ reader' = "none")
         /\ pc = "opening" => pc' \in {"opening", "opened"} ]_vars
  /\ (<>[]openable) => [](pc = "opening" => <>(pc = "opened"))

C30_Witness ==
  pc = "opened" /\ attempts >= 2 /\ reader = "BufReader"

====
